---- MODULE Spec2Model ----
(***************************************************************************)
(* DCLogger (src/src/dc_logger/logger.py): the buffer, the size-triggered  *)
(* flush, the periodic flush task and close(), run by asyncio flows.       *)
(*                                                                         *)
(* asyncio is cooperative: a flow runs without interruption from one await *)
(* that suspends to the next.  Each action below is one such segment.  The *)
(* suspension points are the awaits of handler.write (in flush), of        *)
(* asyncio.sleep (in _periodic_flush), of the flush task (in close) and of *)
(* handler.close (in close).                                               *)
(***************************************************************************)
EXTENDS Integers, Sequences, FiniteSets, TLC

\* ---------------------------------------------------------------- bounds
\* number of records the callers may have accepted in one run
MaxRecords == 3
\* number of close() calls in one run
MaxCloses == 1
\* largest configured batch_size
MaxBatchSize == 3
MaxRequests == 2
MaxHandlerConfigs == 2
MaxHeaders == 2
MaxEncodings == 2
MaxLoggers == 3
MaxGets == 3

\* ---------------------------------------------------------- configuration
\* the flows that call log/flush/close concurrently
Callers == {"c1", "c2"}
\* the task created by _start_flush_task
Timer == "timer"
Procs == Callers \cup {Timer}
\* self.handlers: positions in the handler list
NumHandlers == 2
Handlers == 1..NumHandlers

\* list(LogLevel), in definition order
LogLevel == <<"DEBUG", "INFO", "WARNING", "ERROR", "CRITICAL">>
Levels == {LogLevel[i] : i \in 1..Len(LogLevel)}
\* the minimum level the logger is configured with in the runs explored
\* (config.level); calls are made at every level
ConfiguredLevels == {"WARNING"}
\* the buffer limit the logger is configured with in the runs explored
\* (config.max_buffer_size): batch sizes up to it and above it are explored
ConfiguredMaxBufferSizes == {1}
\* levels.index(l), counted from 1
LevelIndex(l) == CHOOSE i \in 1..Len(LogLevel) : LogLevel[i] = l

\* variant of should_log with a strict comparison
should_log_strict(self, other) == LevelIndex(self) < LevelIndex(other)
\* variant of should_log with the comparison turned around
should_log_reversed(self, other) == LevelIndex(self) >= LevelIndex(other)
\* LogLevel.should_log
should_log(self, other) == LevelIndex(self) <= LevelIndex(other)

\* strings are sequences of characters; str.upper() maps a-z to A-Z and
\* leaves every other character alone
LowerChars == <<"a", "b", "c", "d", "e", "f", "g", "h", "i", "j", "k", "l", "m",
                "n", "o", "p", "q", "r", "s", "t", "u", "v", "w", "x", "y", "z">>
UpperChars == <<"A", "B", "C", "D", "E", "F", "G", "H", "I", "J", "K", "L", "M",
                "N", "O", "P", "Q", "R", "S", "T", "U", "V", "W", "X", "Y", "Z">>
UpperChar(ch) ==
    IF \E i \in DOMAIN LowerChars : LowerChars[i] = ch
    THEN UpperChars[CHOOSE i \in DOMAIN LowerChars : LowerChars[i] = ch]
    ELSE ch
Upper(str) == [i \in DOMAIN str |-> UpperChar(str[i])]
\* the value of each LogLevel member, spelled out
LevelValue(l) ==
    CASE l = "DEBUG"    -> <<"D", "E", "B", "U", "G">>
      [] l = "INFO"     -> <<"I", "N", "F", "O">>
      [] l = "WARNING"  -> <<"W", "A", "R", "N", "I", "N", "G">>
      [] l = "ERROR"    -> <<"E", "R", "R", "O", "R">>
      [] l = "CRITICAL" -> <<"C", "R", "I", "T", "I", "C", "A", "L">>
\* variant of from_string: the string is looked up as it is spelled
from_string_exact(level_str) ==
    IF \E l \in Levels : LevelValue(l) = level_str
    THEN CHOOSE l \in Levels : LevelValue(l) = level_str
    ELSE "INFO"
\* LogLevel.from_string: cls(level_str.upper()), INFO on ValueError
from_string(level_str) ==
    IF \E l \in Levels : LevelValue(l) = Upper(level_str)
    THEN CHOOSE l \in Levels : LevelValue(l) = Upper(level_str)
    ELSE "INFO"

\* what CloudHandler._send_to_cloud can do: return True, return False, raise
SendOutcomes == {"true", "false", "exception"}
\* CloudHandler.write: returns what _send_to_cloud returns, turns an
\* exception into a raised LogWriteError
CloudHandlerWrite(send) == IF send = "exception" THEN "LogWriteError" ELSE send
\* what awaiting handler.close() can do: return, or raise
HandlerCloseOutcomes == {"ok", "raise"}

VARIABLES
    level,        \* config.level
    batch_size,   \* config.batch_size
    max_buffer_size, \* config.max_buffer_size
    num_handlers, \* len(self.handlers)
    buffer,       \* self.buffer: sequence of record ids
    nextId,       \* id of the next record LogEntry.create makes
    pc,           \* where each flow is suspended
    frame,        \* the locals of each flow's running operation
    must_cancel,  \* flush_task.cancel() was called, CancelledError not yet thrown
    hlog,         \* per handler: the write(batch) and close() calls it received
    batches,      \* history: every entries_to_flush taken by a flush, with its origin
    last,         \* history: the outcome of the last call that finished
    closeCalls,   \* number of close() calls made
    accepted,     \* history: the records whose log() call has returned True
    closed,       \* history: a close() call has returned
    flush_tasks,  \* history: how many times asyncio.create_task was called
    lv_str,       \* a level name given as a string (argument of from_string)
    lv_self,      \* the level from_string returned: the receiver of should_log
    lv_other,     \* the level of a message: the argument of should_log
    lv_out,       \* what should_log returned
    ctx,          \* per flow: the values of trace_id_var and request_id_var
    next_uuid,    \* the next identifier the generator gives out
    entry_corr,   \* per record id: the correlation the LogEntry was created with
    ended,        \* history: the trace ids current when end_request() was called
    config,       \* the configuration DCLogger(config, app_name) is given
    loop_running, \* whether an event loop is running at construction
    constructed,  \* what DCLogger.__init__ left: outcome, handlers, flush task
    entry,        \* a LogEntry: its fields, and the objects they refer to
    encoded,      \* the results of the entry.to_dict() calls made, in order
    logs_data,    \* the log_data DatadogHandler built from entry and posted
    global_logger, \* _global_logger: 0 for None, or a DCLogger instance
    logger_names, \* the app_name of each DCLogger instance, in order of creation
    got,          \* the latest get_logger call: its number, argument and result
    last_set      \* history: the argument of the latest set_global_logger call

\* the state of the dispatcher, and the state of the level computations
dvars == <<level, batch_size, max_buffer_size, num_handlers, buffer, nextId, pc, frame, must_cancel, hlog,
           batches, last, closeCalls, accepted, closed, flush_tasks>>
lvars == <<lv_str, lv_self, lv_other, lv_out>>
\* the correlation state, and all the state the dispatcher does not own
cvars == <<ctx, next_uuid, entry_corr, ended>>
\* the state of the other computations on their own
kvars == <<config, loop_running, constructed>>
evars == <<entry, encoded, logs_data>>
gvars == <<global_logger, logger_names, got, last_set>>
xvars == <<config, loop_running, constructed, entry, encoded, logs_data,
           global_logger, logger_names, got, last_set>>
auxvars == <<lv_str, lv_self, lv_other, lv_out, ctx, next_uuid, entry_corr, ended,
             config, loop_running, constructed, entry, encoded, logs_data,
             global_logger, logger_names, got, last_set>>
vars == <<level, batch_size, max_buffer_size, num_handlers, buffer, nextId, pc, frame, must_cancel, hlog,
          batches, last, closeCalls, accepted, closed, flush_tasks,
          lv_str, lv_self, lv_other, lv_out, ctx, next_uuid, entry_corr, ended,
          config, loop_running, constructed, entry, encoded, logs_data,
          global_logger, logger_names, got, last_set>>

\* locals of a running call: op is the entry point (log, flush, close, timer);
\* batch, idx and success are flush()'s entries_to_flush, its position in
\* self.handlers and its success flag (in close(): idx is the position of
\* the handler being closed); before is the set of records whose log() call
\* had returned True when close() was called; flushes counts the flush() calls
\* the operation has made; failed tells whether a write of the batch has
\* returned False
NoFrame == [op |-> "none", batch |-> <<>>, idx |-> 0, success |-> TRUE,
            before |-> {}, flushes |-> 0, failed |-> FALSE]
\* the last call that finished: which entry point, what the caller got
\* ("true", "false", "void" or the name of the exception raised), and
\* whether it appended a record
NoLast == [op |-> "none", ret |-> "none", appended |-> FALSE]

WriteEvent(b) == [kind |-> "write", batch |-> b]
CloseEvent == [kind |-> "close", batch |-> <<>>]

\* DCLogger.__init__: empty buffer, no call made; the flush task exists when
\* an event loop was running at construction and does not otherwise
InitDispatcherOf(n) ==
    /\ num_handlers = n
    /\ level \in ConfiguredLevels
    /\ batch_size \in 1..MaxBatchSize
    /\ max_buffer_size \in ConfiguredMaxBufferSizes
    /\ buffer = <<>>
    /\ nextId = 1
    /\ \E t \in {"none", "sleep"} :
          pc = [p \in Procs |-> IF p = Timer THEN t ELSE "idle"]
    /\ frame = [p \in Procs |-> NoFrame]
    /\ must_cancel = FALSE
    /\ hlog = [h \in Handlers |-> <<>>]
    /\ batches = <<>>
    /\ last = NoLast
    /\ closeCalls = 0
    /\ accepted = {}
    /\ closed = FALSE
    /\ flush_tasks = (IF pc[Timer] = "none" THEN 0 ELSE 1)

\* the logger has the handlers the model follows one by one
InitDispatcher == InitDispatcherOf(NumHandlers)

\* no level computation is under way
NoLevels ==
    /\ lv_str = <<>>
    /\ lv_self = "none"
    /\ lv_other = "none"
    /\ lv_out = "none"

\* the values of the context variables where no request was started
NoContext == [trace_id |-> 0, request_id |-> 0]
\* no request was started in any flow, no LogEntry was created
NoCorrelation ==
    /\ ctx = [p \in Procs |-> NoContext]
    /\ next_uuid = 1
    /\ entry_corr = <<>>
    /\ ended = {}

\* no construction is followed step by step
NoConfig == [kind |-> "none"]
NotConstructed == [outcome |-> "none", handlers |-> <<>>, flush_task |-> "none"]
NoConstruction ==
    /\ config = NoConfig
    /\ loop_running = FALSE
    /\ constructed = NotConstructed

\* Python values: None, str, int, a str spelled out character by character
\* (where its case or its length matters), dict, and an object with its fields
None == [t |-> "none", v |-> 0]
Str(s) == [t |-> "str", v |-> s]
Num(n) == [t |-> "int", v |-> n]
Text(chars) == [t |-> "text", v |-> chars]
Dict(items) == [t |-> "dict", v |-> items]
Obj(fields) == [t |-> "obj", v |-> fields]

\* no record is followed field by field
NoEncoding ==
    /\ entry = None
    /\ encoded = <<>>
    /\ logs_data = None

\* the module was imported, get_logger was never called
NoGot == [n |-> 0, app_name |-> "none", logger |-> 0]
NoGlobal ==
    /\ global_logger = 0
    /\ logger_names = <<>>
    /\ got = NoGot
    /\ last_set = 0

Init ==
    InitDispatcher /\ NoLevels /\ NoCorrelation /\ NoConstruction /\ NoEncoding /\ NoGlobal

\* ------------------------------------------------------------ flush()
\* variants of BufferFull: flushing one record late, and one record early
BufferFullStrict(buf, size) == Len(buf) > size
BufferFullEarly(buf, size) == Len(buf) + 1 >= size
\* log(): if len(self.buffer) >= self.config.batch_size
BufferFull(buf, size) == Len(buf) >= size

\* variant of BufferEmpty: flush() goes on whatever the buffer holds
BufferNeverEmpty(buf) == FALSE
\* flush(): if not self.buffer: return True
BufferEmpty(buf) == buf = <<>>

\* variant of BufferCleared: the flushed records stay in the buffer
BufferKept(buf) == buf
\* flush(): self.buffer.clear(), right after entries_to_flush = self.buffer.copy()
BufferCleared(buf) == <<>>

\* variant of NoFlushTask: a task is created whatever flush_task holds
NoFlushTaskAlways(task) == TRUE
\* self.flush_task is None
NoFlushTask(task) == task = "none"

\* variant of _start_flush_task: no task is created
start_flush_task_skipped(task) == task
\* _start_flush_task: if self.flush_task is None, create the task, which
\* runs up to its first asyncio.sleep
_start_flush_task(task) == IF NoFlushTask(task) THEN "sleep" ELSE task

\* variant of BufferAfterWrite: a batch whose write returned False is put
\* back at the head of the buffer
BufferRequeued(buf, batch, out) == IF out = "false" THEN batch \o buf ELSE buf
\* flush(): self.buffer once handler.write(entries_to_flush) has answered out;
\* the handler loop does not touch it
BufferAfterWrite(buf, batch, out) == buf

\* variant of MoreHandlers: flush() returns after the first handler's write
MoreHandlersNone(idx) == FALSE
\* flush(): for handler in self.handlers, after the write to handler idx
MoreHandlers(idx) == idx < num_handlers

\* variant of SuccessAfterWrite: the status of the latest write wins
SuccessOfLastWrite(success, out) == out = "true"
\* flush(): if not await handler.write(entries_to_flush): success = False
SuccessAfterWrite(success, out) == IF out # "true" THEN FALSE ELSE success

\* variant of entries_to_flush: the next handler is given the buffer itself
entries_live(fr, buf) == buf
\* flush(): the list handler.write is called with, for every handler the
\* copy of the buffer made before the loop
entries_to_flush(fr, buf) == fr.batch

\* the outcome record of a finished call
Finished(op, ret, appended) ==
    [op |-> op, ret |-> ret, appended |-> appended]

\* what follows the return (res = "true"/"false") or the raise
\* (res = "LogWriteError") of the flush() called by flow p with locals fr:
\*   log():   return True, or the exception propagates
\*   flush(): the result goes to the caller
\*   close(): for handler in self.handlers: await handler.close()
\*   _periodic_flush(): loop back to asyncio.sleep, or the task dies
AfterFlush(p, fr, res, pcb) ==
    CASE fr.op = "log" ->
           /\ pc' = [pcb EXCEPT ![p] = "idle"]
           /\ frame' = [frame EXCEPT ![p] = NoFrame]
           /\ last' = Finished("log",
                               IF res = "LogWriteError" THEN res ELSE "true", TRUE)
           /\ accepted' = IF res = "LogWriteError" THEN accepted
                          ELSE accepted \cup {fr.batch[Len(fr.batch)]}
           /\ hlog' = hlog
      [] fr.op = "flush" ->
           /\ pc' = [pcb EXCEPT ![p] = "idle"]
           /\ frame' = [frame EXCEPT ![p] = NoFrame]
           /\ last' = Finished("flush", res, FALSE)
           /\ hlog' = hlog
           /\ accepted' = accepted
      [] fr.op = "close" ->
           IF res = "LogWriteError"
           THEN /\ pc' = [pcb EXCEPT ![p] = "idle"]
                /\ frame' = [frame EXCEPT ![p] = NoFrame]
                /\ last' = Finished("close", res, FALSE)
                /\ hlog' = hlog
                /\ accepted' = accepted
           ELSE IF num_handlers = 0
           THEN /\ pc' = [pcb EXCEPT ![p] = "idle"]
                /\ frame' = [frame EXCEPT ![p] = NoFrame]
                /\ last' = Finished("close", "void", FALSE)
                /\ hlog' = hlog
                /\ accepted' = accepted
           ELSE /\ pc' = [pcb EXCEPT ![p] = "hclose"]
                /\ frame' = [frame EXCEPT ![p] = [fr EXCEPT !.idx = 1]]
                /\ last' = last
                /\ hlog' = [hlog EXCEPT ![1] = Append(@, CloseEvent)]
                /\ accepted' = accepted
      [] fr.op = "timer" ->
           /\ pc' = [pcb EXCEPT ![p] = IF res = "LogWriteError" THEN "failed" ELSE "sleep"]
           /\ frame' = [frame EXCEPT ![p] = NoFrame]
           /\ last' = last
           /\ hlog' = hlog
           /\ accepted' = accepted

\* flush() entered by flow p (locals fr) when the buffer holds buf: up to its
\* return, or up to the first await handler.write(entries_to_flush)
BeginFlush(p, fr, buf, pcb) ==
    LET fr1 == [fr EXCEPT !.flushes = @ + 1] IN
    IF BufferEmpty(buf)
    THEN /\ buffer' = buf
         /\ batches' = batches
         /\ AfterFlush(p, fr1, "true", pcb)
    ELSE /\ buffer' = BufferCleared(buf)
         /\ batches' = Append(batches, [recs |-> buf, origin |-> fr.op])
         /\ IF num_handlers = 0
            THEN AfterFlush(p, [fr1 EXCEPT !.batch = buf], "true", pcb)
            ELSE /\ pc' = [pcb EXCEPT ![p] = "write"]
                 /\ frame' = [frame EXCEPT ![p] =
                        [fr1 EXCEPT !.batch = buf, !.idx = 1, !.success = TRUE,
                                    !.failed = FALSE]]
                 /\ last' = last
                 /\ accepted' = accepted
                 /\ hlog' = [hlog EXCEPT ![1] = Append(@, WriteEvent(buf))]

\* ------------------------------------------------------------ actions
\* log(level, ...) called by flow c, up to its return or to the first
\* suspension of the flush it triggers
DCLogger_log(c, lvl) ==
    /\ pc[c] = "idle"
    /\ IF ~should_log(level, lvl)
       THEN \* return True, before anything else is touched
            /\ last' = Finished("log", "true", FALSE)
            /\ UNCHANGED <<level, batch_size, max_buffer_size, num_handlers, flush_tasks, buffer, nextId, pc, frame,
                           must_cancel, hlog, batches, closeCalls, accepted>>
       ELSE /\ nextId <= MaxRecords
            /\ LET \* if self.flush_task is None: self._start_flush_task()
                   pcb == [pc EXCEPT ![Timer] = _start_flush_task(@)]
                   \* self.buffer.append(entry)
                   buf == Append(buffer, nextId)
                   fr  == [NoFrame EXCEPT !.op = "log"]
               IN  /\ nextId' = nextId + 1
                   /\ IF BufferFull(buf, batch_size)
                      THEN BeginFlush(c, fr, buf, pcb)
                      ELSE /\ buffer' = buf
                           /\ pc' = pcb
                           /\ last' = Finished("log", "true", TRUE)
                           /\ accepted' = accepted \cup {nextId}
                           /\ UNCHANGED <<frame, hlog, batches>>
            /\ flush_tasks' = flush_tasks + (IF NoFlushTask(pc[Timer]) THEN 1 ELSE 0)
            /\ UNCHANGED <<level, batch_size, max_buffer_size, num_handlers, must_cancel, closeCalls>>
    /\ closed' = (closed \/ last' = Finished("close", "void", FALSE))

\* a log() call in a run that does not follow the correlation state
LogCall(c, lvl) ==
    /\ DCLogger_log(c, lvl)
    /\ UNCHANGED auxvars

\* flush() called by flow c
FlushCall(c) ==
    /\ UNCHANGED auxvars
    /\ pc[c] = "idle"
    /\ BeginFlush(c, [NoFrame EXCEPT !.op = "flush"], buffer, pc)
    /\ UNCHANGED <<level, batch_size, max_buffer_size, num_handlers, flush_tasks, nextId, must_cancel, closeCalls>>
    /\ closed' = (closed \/ last' = Finished("close", "void", FALSE))

\* the await handler.write(entries_to_flush) of flow p returns or raises;
\* flush() goes on to the next handler, returns, or lets the exception out
WriteReturn(p, send) ==
    /\ UNCHANGED auxvars
    /\ pc[p] = "write"
    /\ p = Timer => ~must_cancel
    /\ LET fr  == frame[p]
           out == CloudHandlerWrite(send)
           \* if not await handler.write(...): success = False
           fr1 == [fr EXCEPT !.success = SuccessAfterWrite(@, out),
                             !.failed = @ \/ out = "false"]
       IN  IF out = "LogWriteError"
           THEN AfterFlush(p, fr1, out, pc)
           ELSE IF MoreHandlers(fr.idx)
           THEN /\ frame' = [frame EXCEPT ![p] = [fr1 EXCEPT !.idx = @ + 1]]
                /\ hlog' = [hlog EXCEPT ![fr.idx + 1] =
                               Append(@, WriteEvent(entries_to_flush(fr, buffer)))]
                /\ UNCHANGED <<pc, last, accepted>>
           ELSE AfterFlush(p, fr1, IF fr1.success THEN "true" ELSE "false", pc)
    /\ UNCHANGED <<level, batch_size, max_buffer_size, num_handlers, flush_tasks, nextId, must_cancel, batches, closeCalls>>
    /\ buffer' = BufferAfterWrite(buffer, frame[p].batch, CloudHandlerWrite(send))
    /\ closed' = (closed \/ last' = Finished("close", "void", FALSE))

\* _periodic_flush: asyncio.sleep(flush_interval) is over, flush() is called
TimerFire ==
    /\ UNCHANGED auxvars
    /\ pc[Timer] = "sleep"
    /\ ~must_cancel
    /\ BeginFlush(Timer, [NoFrame EXCEPT !.op = "timer"], buffer, pc)
    /\ UNCHANGED <<level, batch_size, max_buffer_size, num_handlers, flush_tasks, nextId, must_cancel, closeCalls>>
    /\ closed' = (closed \/ last' = Finished("close", "void", FALSE))

\* the CancelledError asked for by flush_task.cancel() is thrown into the task
\* at the await it is suspended in (the sleep, or a handler write inside
\* flush()); nothing in _periodic_flush, flush or CloudHandler.write catches it
TimerCancelled ==
    /\ UNCHANGED auxvars
    /\ must_cancel
    /\ pc[Timer] \in {"sleep", "write"}
    /\ pc' = [pc EXCEPT ![Timer] = "cancelled"]
    /\ frame' = [frame EXCEPT ![Timer] = NoFrame]
    /\ must_cancel' = FALSE
    /\ UNCHANGED <<level, batch_size, max_buffer_size, num_handlers, flush_tasks, buffer, nextId, hlog, batches, last,
                   closeCalls, accepted>>
    /\ closed' = (closed \/ last' = Finished("close", "void", FALSE))

\* close() called by flow c, up to its first suspension, in a run that makes
\* at most n calls of close()
CloseCallWithin(c, n) ==
    /\ UNCHANGED auxvars
    /\ pc[c] = "idle"
    /\ closeCalls < n
    /\ closeCalls' = closeCalls + 1
    /\ LET fr == [NoFrame EXCEPT !.op = "close", !.before = accepted] IN
       CASE pc[Timer] \in {"sleep", "write"} ->
              \* self.flush_task.cancel(); await self.flush_task
              /\ must_cancel' = TRUE
              /\ pc' = [pc EXCEPT ![c] = "join"]
              /\ frame' = [frame EXCEPT ![c] = fr]
              /\ UNCHANGED <<buffer, hlog, batches, last, accepted>>
         [] pc[Timer] = "failed" ->
              \* awaiting the finished task re-raises its exception
              /\ last' = Finished("close", "LogWriteError", FALSE)
              /\ UNCHANGED <<buffer, pc, frame, must_cancel, hlog, batches, accepted>>
         [] pc[Timer] \in {"none", "cancelled"} ->
              \* no task, or CancelledError caught: final flush
              /\ BeginFlush(c, fr, buffer, pc)
              /\ UNCHANGED must_cancel
    /\ UNCHANGED <<level, batch_size, max_buffer_size, num_handlers, flush_tasks, nextId>>
    /\ closed' = (closed \/ last' = Finished("close", "void", FALSE))

\* close() called by flow c
CloseCall(c) == CloseCallWithin(c, MaxCloses)

\* close(): await self.flush_task is over
CloseJoin(c) ==
    /\ UNCHANGED auxvars
    /\ pc[c] = "join"
    /\ pc[Timer] \in {"cancelled", "failed"}
    /\ IF pc[Timer] = "failed"
       THEN /\ pc' = [pc EXCEPT ![c] = "idle"]
            /\ frame' = [frame EXCEPT ![c] = NoFrame]
            /\ last' = Finished("close", "LogWriteError", FALSE)
            /\ UNCHANGED <<buffer, hlog, batches, accepted>>
       ELSE BeginFlush(c, frame[c], buffer, pc)
    /\ UNCHANGED <<level, batch_size, max_buffer_size, num_handlers, flush_tasks, nextId, must_cancel, closeCalls>>
    /\ closed' = (closed \/ last' = Finished("close", "void", FALSE))

\* close(): the await handler.close() of flow c returns or raises
HandlerCloseReturn(c, out) ==
    /\ UNCHANGED auxvars
    /\ pc[c] = "hclose"
    /\ LET fr == frame[c] IN
       IF out = "raise"
       THEN /\ pc' = [pc EXCEPT ![c] = "idle"]
            /\ frame' = [frame EXCEPT ![c] = NoFrame]
            /\ last' = Finished("close", "HandlerCloseError", FALSE)
            /\ UNCHANGED <<hlog, accepted>>
       ELSE IF fr.idx < num_handlers
       THEN /\ frame' = [frame EXCEPT ![c] = [fr EXCEPT !.idx = @ + 1]]
            /\ hlog' = [hlog EXCEPT ![fr.idx + 1] = Append(@, CloseEvent)]
            /\ UNCHANGED <<pc, last, accepted>>
       ELSE /\ pc' = [pc EXCEPT ![c] = "idle"]
            /\ frame' = [frame EXCEPT ![c] = NoFrame]
            /\ last' = Finished("close", "void", FALSE)
            /\ UNCHANGED <<hlog, accepted>>
    /\ UNCHANGED <<level, batch_size, max_buffer_size, num_handlers, flush_tasks, buffer, nextId, must_cancel, batches, closeCalls>>
    /\ closed' = (closed \/ last' = Finished("close", "void", FALSE))

Next ==
    \/ \E c \in Callers, lvl \in Levels : LogCall(c, lvl)
    \/ \E c \in Callers : FlushCall(c)
    \/ \E p \in Procs, send \in SendOutcomes : WriteReturn(p, send)
    \/ TimerFire
    \/ TimerCancelled
    \/ \E c \in Callers : CloseCall(c)
    \/ \E c \in Callers : CloseJoin(c)
    \/ \E c \in Callers, out \in HandlerCloseOutcomes : HandlerCloseReturn(c, out)

Spec == Init /\ [][Next]_vars

\* the logger constructed while no event loop is running: get_running_loop()
\* raises RuntimeError in __init__ and flush_task stays None
InitNoLoop == Init /\ pc[Timer] = "none"
SpecNoLoop == InitNoLoop /\ [][Next]_vars

\* one flow uses the logger, each call awaited before the next is made, and
\* the run is over before the first asyncio.sleep(flush_interval) of the
\* periodic task is: the task, if started, is only ever cancelled by close()
NextSequential ==
    \/ \E lvl \in Levels : LogCall("c1", lvl)
    \/ \E send \in SendOutcomes : WriteReturn("c1", send)
    \/ TimerCancelled
    \/ CloseCall("c1")
    \/ CloseJoin("c1")
    \/ \E out \in HandlerCloseOutcomes : HandlerCloseReturn("c1", out)

SpecSequential == Init /\ [][NextSequential]_vars

\* one flow uses the logger beside the periodic task, each call awaited before
\* the next is made, and it calls close() once more than the other runs do
NextCloseAgain ==
    \/ \E lvl \in Levels : LogCall("c1", lvl)
    \/ \E p \in Procs, send \in SendOutcomes : WriteReturn(p, send)
    \/ TimerFire
    \/ TimerCancelled
    \/ CloseCallWithin("c1", MaxCloses + 1)
    \/ CloseJoin("c1")
    \/ \E out \in HandlerCloseOutcomes : HandlerCloseReturn("c1", out)

SpecCloseAgain == Init /\ [][NextCloseAgain]_vars

\* the periodic task is running and is the only one to flush: no flush() and
\* no close() is called, and no log() call brings the buffer to batch_size
NextTimerOnly ==
    \/ \E c \in Callers, lvl \in Levels :
          /\ ~BufferFull(Append(buffer, nextId), batch_size)
          /\ LogCall(c, lvl)
    \/ \E send \in SendOutcomes : WriteReturn(Timer, send)
    \/ TimerFire

\* asyncio.sleep(flush_interval) ends, and every handler write ends (by
\* returning or by raising)
FairTimerOnly ==
    /\ WF_vars(TimerFire)
    /\ WF_vars(\E send \in SendOutcomes : WriteReturn(Timer, send))

InitTimerOnly == Init /\ pc[Timer] = "sleep"
SpecTimerOnly == InitTimerOnly /\ [][NextTimerOnly]_vars /\ FairTimerOnly

\* ------------------------------------------------ correlation
\* Each caller is an independent flow (an asyncio task with its own context);
\* the identifiers are numbered in the order in which they are generated.

\* variant of start_request: one store shared by all flows
start_request_shared(cx, c, fresh) ==
    [p \in Procs |-> [trace_id |-> fresh, request_id |-> fresh + 1]]
\* correlation_manager.start_request(): a new trace id and a new request id
\* are generated and installed in the calling flow's context variables
start_request(cx, c, fresh) ==
    [cx EXCEPT ![c] = [trace_id |-> fresh, request_id |-> fresh + 1]]

\* DCLogger.end_request(): the body is a docstring and a comment
end_request(cx, c) == cx

\* asyncio.create_task gives the new task a copy of the creating flow's context
CopyContext(cx, c) == [cx EXCEPT ![Timer] = cx[c]]

\* variant of LogEntry_create: the request id is stored as the trace id
LogEntry_create_swapped(trace_id, request_id) == [trace_id |-> request_id]
\* LogEntry.create(trace_id=..., request_id=..., correlation=None, ...): the
\* record's correlation is Correlation(trace_id=trace_id); request_id is not
\* read (no get_or_create_correlation() call is made in the runs explored,
\* so that correlation_var holds None)
LogEntry_create(trace_id, request_id) == [trace_id |-> trace_id]

\* the runs that follow the correlation state are made with this batch size
\* and with handlers whose writes return True (Spec explores the others)
CorrelationBatchSizes == {2}
CorrelationSendOutcomes == {"true"}

InitCorrelation ==
    /\ Init
    /\ pc[Timer] = "none"
    /\ batch_size \in CorrelationBatchSizes

\* start_request() called in flow c
StartRequest(c) ==
    /\ pc[c] = "idle"
    /\ next_uuid < 2 * MaxRequests
    /\ ctx' = start_request(ctx, c, next_uuid)
    /\ next_uuid' = next_uuid + 2
    /\ UNCHANGED <<entry_corr, ended>>
    /\ UNCHANGED dvars
    /\ UNCHANGED lvars
    /\ UNCHANGED xvars

\* end_request() called in flow c, a request being current
EndRequest(c) ==
    /\ pc[c] = "idle"
    /\ ctx[c].trace_id # 0
    /\ ctx[c].trace_id \notin ended
    /\ ctx' = end_request(ctx, c)
    /\ ended' = ended \cup {ctx[c].trace_id}
    /\ UNCHANGED <<next_uuid, entry_corr>>
    /\ UNCHANGED dvars
    /\ UNCHANGED lvars
    /\ UNCHANGED xvars

\* log() called in flow c: LogEntry.create is given the values that
\* trace_id_var.get() and request_id_var.get() return in that flow, and the
\* flush task, if this call creates it, starts with a copy of c's context
LogInFlow(c, lvl) ==
    /\ DCLogger_log(c, lvl)
    /\ entry_corr' = IF nextId' = nextId THEN entry_corr
                     ELSE Append(entry_corr,
                                 LogEntry_create(ctx[c].trace_id, ctx[c].request_id))
    /\ ctx' = IF flush_tasks' = flush_tasks THEN ctx ELSE CopyContext(ctx, c)
    /\ UNCHANGED <<next_uuid, ended>>
    /\ UNCHANGED lvars
    /\ UNCHANGED xvars

NextCorrelation ==
    \/ \E c \in Callers : StartRequest(c)
    \/ \E c \in Callers : EndRequest(c)
    \/ \E c \in Callers, lvl \in Levels : LogInFlow(c, lvl)
    \/ \E c \in Callers : FlushCall(c)
    \/ \E p \in Procs, send \in CorrelationSendOutcomes : WriteReturn(p, send)
    \/ TimerFire

SpecCorrelation == InitCorrelation /\ [][NextCorrelation]_vars

\* ------------------------------------------------ construction
\* A configuration is a record: kind names its class, and each required
\* setting is TRUE when it is set and FALSE when it is None or empty. The
\* multi-handler configuration holds a list of the others.

ConsoleConfigs == {[kind |-> "console"]}
DatadogConfigs == {[kind |-> "datadog", api_key |-> k] : k \in BOOLEAN}
AWSConfigs == {[kind |-> "aws", aws_region |-> r, log_group |-> g] :
                  r \in BOOLEAN, g \in BOOLEAN}
GCPConfigs == {[kind |-> "gcp", project_id |-> i] : i \in BOOLEAN}
AzureConfigs == {[kind |-> "azure", workspace_id |-> w, shared_key |-> k] :
                    w \in BOOLEAN, k \in BOOLEAN}
SimpleConfigs ==
    ConsoleConfigs \cup DatadogConfigs \cup AWSConfigs \cup GCPConfigs \cup AzureConfigs
MultiConfigs ==
    {[kind |-> "multi", handlers |-> hs] :
        hs \in UNION {[1..n -> SimpleConfigs] : n \in 0..MaxHandlerConfigs}}
Configs == SimpleConfigs \cup MultiConfigs

\* variant of validate_config: the Datadog API key is not checked
validate_config_no_key(c) ==
    CASE c.kind = "console" -> "True"
      [] c.kind = "datadog" -> "True"
      [] c.kind = "aws" ->
           IF ~c.aws_region \/ ~c.log_group THEN "LogConfigError" ELSE "True"
      [] c.kind = "gcp" -> IF ~c.project_id THEN "LogConfigError" ELSE "True"
      [] c.kind = "azure" ->
           IF ~c.workspace_id \/ ~c.shared_key THEN "LogConfigError" ELSE "True"
\* validate_config of ConsoleLogConfig, DatadogLogConfig,
\* AWSCloudWatchLogConfig, GCPLoggingConfig and AzureLogAnalyticsConfig:
\* True, or LogConfigError is raised
validate_config(c) ==
    CASE c.kind = "console" -> "True"
      [] c.kind = "datadog" -> IF ~c.api_key THEN "LogConfigError" ELSE "True"
      [] c.kind = "aws" ->
           IF ~c.aws_region \/ ~c.log_group THEN "LogConfigError" ELSE "True"
      [] c.kind = "gcp" -> IF ~c.project_id THEN "LogConfigError" ELSE "True"
      [] c.kind = "azure" ->
           IF ~c.workspace_id \/ ~c.shared_key THEN "LogConfigError" ELSE "True"

\* validate_config of the multi-handler configuration: for handler in
\* self.handlers: if not handler.config.validate_config(): return False; an
\* exception raised by a handler's configuration propagates
validate_multi_config(c) ==
    LET bad == {i \in DOMAIN c.handlers : validate_config(c.handlers[i]) # "True"} IN
    IF bad = {} THEN "True"
    ELSE LET first == CHOOSE i \in bad : \A j \in bad : i <= j IN
         IF validate_config(c.handlers[first]) = "LogConfigError"
         THEN "LogConfigError" ELSE "False"

\* config.validate_config(), whatever the class
ValidateConfig(c) ==
    IF c.kind = "multi" THEN validate_multi_config(c) ELSE validate_config(c)

\* the handler class _setup_handlers instantiates for a handler configuration
HandlerClass(c) ==
    CASE c.kind = "console" -> "ConsoleHandler"
      [] c.kind = "datadog" -> "DatadogHandler"
      [] c.kind = "aws" -> "AWSCloudWatchHandler"
      [] c.kind = "gcp" -> "GCPLoggingHandler"
      [] c.kind = "azure" -> "AzureLogAnalyticsHandler"

\* _setup_handlers: one handler per handler configuration, in order
\* (a configuration that is not a multi-handler one stands for itself)
_setup_handlers(c) ==
    IF c.kind = "multi"
    THEN [i \in DOMAIN c.handlers |-> HandlerClass(c.handlers[i])]
    ELSE <<HandlerClass(c)>>

\* variant of DCLogger__init__: validation comes after the handlers and the task
DCLogger__init__validate_last(c, loop) ==
    IF ValidateConfig(c) = "LogConfigError"
    THEN [outcome |-> "LogConfigError", handlers |-> _setup_handlers(c),
          flush_task |-> IF loop THEN "sleep" ELSE "none"]
    ELSE [outcome |-> "constructed", handlers |-> _setup_handlers(c),
          flush_task |-> IF loop THEN "sleep" ELSE "none"]
\* DCLogger.__init__: config.validate_config() (its result is not read), then
\* _setup_handlers(), then _start_flush_task() if an event loop is running
DCLogger__init__(c, loop) ==
    IF ValidateConfig(c) = "LogConfigError"
    THEN [outcome |-> "LogConfigError", handlers |-> <<>>, flush_task |-> "none"]
    ELSE [outcome |-> "constructed", handlers |-> _setup_handlers(c),
          flush_task |-> IF loop THEN _start_flush_task("none") ELSE "none"]

InitConstruction ==
    /\ InitDispatcher
    /\ batch_size = 1
    /\ pc[Timer] = "none"
    /\ NoLevels
    /\ NoCorrelation
    /\ config \in Configs
    /\ loop_running \in BOOLEAN
    /\ constructed = NotConstructed
    /\ NoEncoding
    /\ NoGlobal

\* DCLogger(config, app_name)
Construct ==
    /\ constructed = NotConstructed
    /\ constructed' = DCLogger__init__(config, loop_running)
    /\ UNCHANGED <<config, loop_running>>
    /\ UNCHANGED dvars
    /\ UNCHANGED lvars
    /\ UNCHANGED cvars
    /\ UNCHANGED evars
    /\ UNCHANGED gvars

NextConstruction == Construct

SpecConstruction == InitConstruction /\ [][NextConstruction]_vars

\* the logger constructed from a multi-handler configuration whose handler
\* list is empty (its default): validation passes, get_handler_configs()
\* returns [], and self.handlers stays empty
NoHandlersConfig == [kind |-> "multi", handlers |-> <<>>]
InitNoHandlers ==
    /\ DCLogger__init__(NoHandlersConfig, TRUE).outcome = "constructed"
    /\ InitDispatcherOf(Len(_setup_handlers(NoHandlersConfig)))
    /\ NoLevels
    /\ NoCorrelation
    /\ NoConstruction
    /\ NoEncoding
    /\ NoGlobal

\* with no handler, no call is ever suspended in a handler's write or close
NextNoHandlers ==
    \/ \E c \in Callers, lvl \in Levels : LogCall(c, lvl)
    \/ \E c \in Callers : FlushCall(c)
    \/ TimerFire
    \/ TimerCancelled
    \/ \E c \in Callers : CloseCall(c)
    \/ \E c \in Callers : CloseJoin(c)

SpecNoHandlers == InitNoHandlers /\ [][NextNoHandlers]_vars

\* ------------------------------------------------ the LogLevel functions
\* LogLevel.from_string and LogLevel.should_log are pure: they are applied
\* to inputs drawn from LevelStrings and Levels, the dispatcher standing idle.

LowerChar(ch) ==
    IF \E i \in DOMAIN UpperChars : UpperChars[i] = ch
    THEN LowerChars[CHOOSE i \in DOMAIN UpperChars : UpperChars[i] = ch]
    ELSE ch
Lower(str) == [i \in DOMAIN str |-> LowerChar(str[i])]
Title(str) == [i \in DOMAIN str |-> IF i = 1 THEN str[i] ELSE LowerChar(str[i])]
Mixed(str) ==
    [i \in DOMAIN str |-> IF i % 2 = 0 THEN UpperChar(str[i]) ELSE LowerChar(str[i])]
\* level names in four spellings, and strings that name no level
LevelStrings ==
    {LevelValue(l) : l \in Levels}
        \cup {Lower(LevelValue(l)) : l \in Levels}
        \cup {Title(LevelValue(l)) : l \in Levels}
        \cup {Mixed(LevelValue(l)) : l \in Levels}
        \cup {<<>>, <<"W", "A", "R", "N">>, <<"t", "r", "a", "c", "e">>,
              <<"D", "E", "B", "U", "G", " ">>}

InitLevels ==
    /\ InitDispatcher
    /\ batch_size = 1
    /\ pc[Timer] = "none"
    /\ lv_str \in LevelStrings
    /\ lv_self = "none"
    /\ lv_other \in Levels
    /\ lv_out = "none"
    /\ NoCorrelation
    /\ NoConstruction
    /\ NoEncoding
    /\ NoGlobal

\* lv_self = LogLevel.from_string(lv_str)
FromStringCall ==
    /\ lv_self = "none"
    /\ lv_self' = from_string(lv_str)
    /\ UNCHANGED <<lv_str, lv_other, lv_out>>
    /\ UNCHANGED dvars
    /\ UNCHANGED cvars
    /\ UNCHANGED xvars

\* lv_out = lv_self.should_log(lv_other)
ShouldLogCall ==
    /\ lv_self # "none"
    /\ lv_out = "none"
    /\ lv_out' = (IF should_log(lv_self, lv_other) THEN "true" ELSE "false")
    /\ UNCHANGED <<lv_str, lv_self, lv_other>>
    /\ UNCHANGED dvars
    /\ UNCHANGED cvars
    /\ UNCHANGED xvars

NextLevels ==
    \/ FromStringCall
    \/ ShouldLogCall

SpecLevels == InitLevels /\ [][NextLevels]_vars

\* ------------------------------------------------ the views of a LogEntry
\* bool(x) of a Python value
Truthy(x) ==
    /\ x.t # "none"
    /\ ~(x.t = "str" /\ x.v = "")
    /\ ~(x.t = "text" /\ x.v = <<>>)
    /\ ~(x.t = "int" /\ x.v = 0)
    /\ ~(x.t = "dict" /\ DOMAIN x.v = {})

EmptyDict == [k \in {} |-> None]
\* {k: v for k, v in items.items() if v is not None}
WithoutNone(items) == [k \in {j \in DOMAIN items : items[j] # None} |-> items[k]]

\* the dataclasses of client/models.py, with their defaults
Entity(id) ==
    Obj([type |-> Str("dataset"), id |-> id, name |-> None,
         additional_info |-> Dict(EmptyDict), parent |-> None])
Correlation(trace_id, span_id) ==
    Obj([trace_id |-> trace_id, span_id |-> span_id, parent_span_id |-> None])
MultiTenant(user_id, session_id) ==
    Obj([user_id |-> user_id, session_id |-> session_id, tenant_id |-> None,
         organization_id |-> None])
HTTPDetails(method, status_code, headers, request_body) ==
    Obj([method |-> method, url |-> None, status_code |-> status_code,
         headers |-> headers, params |-> None, response_size |-> None,
         request_body |-> request_body, response_body |-> None])
LogEntry(user, action, entity, duration_ms, correlation, multi_tenant, http_details, extra) ==
    Obj([timestamp |-> Str("2024-01-01T00:00:00Z"), level |-> "ERROR",
         logger |-> Str("app"), message |-> Str("msg"),
         user |-> user, action |-> action, entity |-> entity, status |-> Str("info"),
         duration_ms |-> duration_ms, correlation |-> correlation,
         multi_tenant |-> multi_tenant, http_details |-> http_details,
         extra |-> extra])

\* the names _serialize_http_details compares k.lower() with
SensitiveHeaders ==
    {<<"a", "u", "t", "h", "o", "r", "i", "z", "a", "t", "i", "o", "n">>,
     <<"c", "o", "o", "k", "i", "e">>,
     <<"x", "-", "d", "o", "m", "o", "-", "a", "u", "t", "h", "e", "n", "t", "i",
       "c", "a", "t", "i", "o", "n">>}
\* variant of Sensitive: the header name is compared as it is spelled
SensitiveExact(k) == k \in SensitiveHeaders
\* k.lower() in ["authorization", "cookie", "x-domo-authentication"]
Sensitive(k) == Lower(k) \in SensitiveHeaders

\* safe_headers: a new dict with the headers whose name is not sensitive
SafeHeaders(headers) ==
    [k \in {j \in DOMAIN headers.v : ~Sensitive(j)} |-> headers.v[k]]

\* variant of HeadersAfterSerialize: the sensitive headers are deleted in place
HeadersRedactedInPlace(headers) ==
    IF headers.t = "dict" THEN Dict(SafeHeaders(headers)) ELSE headers
\* _serialize_http_details: self.http_details.headers once the loop over
\* .items() is over; the loop writes safe_headers only
HeadersAfterSerialize(headers) == headers

\* the length from which _serialize_http_details cuts a body
BodyLimit == 500
\* variant of Truncated: bodies are cut one character later
TruncatedLate(body) ==
    IF body.t = "text" /\ Len(body.v) > BodyLimit + 1
    THEN Text(SubSeq(body.v, 1, BodyLimit + 1) \o <<".", ".", ".">>)
    ELSE body
\* body[:500] + "..." when body is a str longer than 500
Truncated(body) ==
    IF body.t = "text" /\ Len(body.v) > BodyLimit
    THEN Text(SubSeq(body.v, 1, BodyLimit) \o <<".", ".", ".">>)
    ELSE body

\* LogEntry._serialize_http_details
_serialize_http_details(e) ==
    IF e.v.http_details = None THEN None
    ELSE LET h == e.v.http_details.v
             keep(x) == IF Truthy(x) THEN x ELSE None
             http_details_dict == WithoutNone(
                [method |-> keep(h.method),
                 url |-> keep(h.url),
                 headers |-> IF Truthy(h.headers) /\ DOMAIN SafeHeaders(h.headers) # {}
                             THEN Dict(SafeHeaders(h.headers)) ELSE None,
                 params |-> keep(h.params),
                 request_body |-> IF Truthy(h.request_body)
                                  THEN Truncated(h.request_body) ELSE None,
                 response_body |-> IF Truthy(h.response_body)
                                   THEN Truncated(h.response_body) ELSE None])
         IN  IF DOMAIN http_details_dict = {} THEN None ELSE Dict(http_details_dict)

\* obj.__dict__ if obj else None
DictOf(obj) == IF obj = None THEN None ELSE Dict(obj.v)

\* LogEntry.to_dict
to_dict(e) ==
    Dict(WithoutNone(
        [timestamp |-> e.v.timestamp,
         level |-> Text(LevelValue(e.v.level)),
         logger |-> e.v.logger,
         message |-> e.v.message,
         user |-> IF Truthy(e.v.user) THEN e.v.user
                  ELSE IF e.v.multi_tenant # None /\ Truthy(e.v.multi_tenant.v.user_id)
                  THEN e.v.multi_tenant.v.user_id
                  ELSE None,
         action |-> e.v.action,
         status |-> e.v.status,
         duration_ms |-> e.v.duration_ms,
         entity |-> DictOf(e.v.entity),
         correlation |-> DictOf(e.v.correlation),
         multi_tenant |-> DictOf(e.v.multi_tenant),
         http_details |-> _serialize_http_details(e),
         extra |-> e.v.extra]))

\* the entry once to_dict() has returned
EntryAfterToDict(e) ==
    IF e.v.http_details # None /\ Truthy(e.v.http_details.v.headers)
    THEN Obj([e.v EXCEPT !.http_details =
                Obj([@.v EXCEPT !.headers = HeadersAfterSerialize(@)])])
    ELSE e

\* dict.update: the items of other are written into target
Updated(target, other) ==
    [k \in DOMAIN target \cup DOMAIN other |->
        IF k \in DOMAIN other THEN other[k] ELSE target[k]]

\* DatadogHandler._send_logs_simple_api: the log_data built for one entry
log_data(e) ==
    LET base == [message |-> e.v.message,
                 ddsource |-> Str("domolibrary"),
                 service |-> Str("domolibrary"),
                 hostname |-> Str("127.0.0.1"),
                 status |-> Text(Lower(LevelValue(e.v.level))),
                 ddtags |-> Str("env:production,service:domolibrary"),
                 timestamp |-> e.v.timestamp]
        ent == IF e.v.entity # None
               THEN Updated(base, [entity |-> Dict(e.v.entity.v)]) ELSE base
        cor == IF e.v.correlation # None
               THEN Updated(ent, [correlation |-> Dict(
                       [trace_id |-> e.v.correlation.v.trace_id,
                        span_id |-> e.v.correlation.v.span_id,
                        parent_span_id |-> e.v.correlation.v.parent_span_id])])
               ELSE ent
        mul == IF e.v.multi_tenant # None
               THEN Updated(cor, [multi_tenant |-> Dict(
                       [user_id |-> e.v.multi_tenant.v.user_id,
                        session_id |-> e.v.multi_tenant.v.session_id,
                        tenant_id |-> e.v.multi_tenant.v.tenant_id,
                        organization_id |-> e.v.multi_tenant.v.organization_id])])
               ELSE cor
        htt == IF e.v.http_details # None
               THEN Updated(mul, [http_details |-> Dict(
                       [method |-> e.v.http_details.v.method,
                        url |-> e.v.http_details.v.url,
                        status_code |-> e.v.http_details.v.status_code])])
               ELSE mul
    IN  Dict(IF Truthy(e.v.extra) THEN Updated(htt, e.v.extra.v) ELSE htt)

\* variant of ExtraAfterUpdate: the update goes the other way round
ExtraUpdated(extra, data) == Dict(Updated(extra.v, data.v))
\* log_data.update(entry.extra): entry.extra once the update is done; the
\* update writes log_data only
ExtraAfterUpdate(extra, data) == extra

\* the entry once _send_logs_simple_api has returned
EntryAfterSend(e) ==
    IF Truthy(e.v.extra)
    THEN Obj([e.v EXCEPT !.extra = ExtraAfterUpdate(@, log_data(e))])
    ELSE e

\* header names in several spellings, and header maps of up to MaxHeaders names
Spellings(name) ==
    {[i \in DOMAIN name |-> IF i \in U THEN UpperChar(name[i]) ELSE name[i]] :
        U \in SUBSET {1, 2, Len(name)}} \cup {Upper(name)}
HeaderNames ==
    Spellings(<<"a", "u", "t", "h", "o", "r", "i", "z", "a", "t", "i", "o", "n">>)
        \cup {<<"c", "o", "o", "k", "i", "e">>, <<"C", "o", "o", "k", "i", "e">>,
              <<"a", "c", "c", "e", "p", "t">>, <<"A", "c", "c", "e", "p", "t">>}
HeaderMaps ==
    {[k \in names |-> Str("v")] :
        names \in {S \in SUBSET HeaderNames : Cardinality(S) <= MaxHeaders}}
ShortBody == <<"o", "k">>
BodyChars == <<"x", "y", "z">>
LimitBody == [i \in 1..BodyLimit |-> BodyChars[(i % 3) + 1]]
LongBody == [i \in 1..(BodyLimit + 1) |-> BodyChars[(i % 3) + 1]]
LongerBody == [i \in 1..(BodyLimit + 2) |-> BodyChars[(i % 3) + 1]]

\* entries that differ in their business fields
BusinessEntries ==
    {LogEntry(user, action, entity, duration_ms, correlation, multi_tenant,
              http_details, extra) :
        user \in {None, Str("u")},
        action \in {None, Str("a")},
        entity \in {None, Entity(None), Entity(Str("e1"))},
        duration_ms \in {None, Num(5)},
        correlation \in {None, Correlation(Str("t1"), None)},
        multi_tenant \in {None, MultiTenant(Str("u2"), None), MultiTenant(None, Str("s1"))},
        http_details \in {None, HTTPDetails(Str("GET"), Num(500), None, None)},
        extra \in {Dict(EmptyDict), Dict([k |-> Str("v")])}}
\* entries that differ in their HTTP details
HeaderEntries ==
    {LogEntry(None, None, None, None, None, None,
              HTTPDetails(method, None, headers, request_body), Dict(EmptyDict)) :
        method \in {None, Str("GET")},
        headers \in {None} \cup {Dict(m) : m \in HeaderMaps},
        request_body \in {None, Text(ShortBody), Text(LongBody)}}

\* entries that differ in the bodies of their HTTP details
Bodies ==
    {None, Text(<<>>), Text(ShortBody), Text(LimitBody), Text(LongBody), Text(LongerBody)}
BodyEntries ==
    {LogEntry(None, None, None, None, None, None,
              Obj([method |-> None, url |-> None, status_code |-> None,
                   headers |-> None, params |-> None, response_size |-> None,
                   request_body |-> request_body, response_body |-> response_body]),
              Dict(EmptyDict)) :
        request_body \in Bodies, response_body \in Bodies}

InitEncoding ==
    /\ InitDispatcher
    /\ batch_size = 1
    /\ pc[Timer] = "none"
    /\ NoLevels
    /\ NoCorrelation
    /\ NoConstruction
    /\ entry \in BusinessEntries \cup HeaderEntries \cup BodyEntries
    /\ encoded = <<>>
    /\ logs_data = None
    /\ NoGlobal

\* entry.to_dict()
ToDictCall ==
    /\ Len(encoded) < MaxEncodings
    /\ encoded' = Append(encoded, to_dict(entry))
    /\ entry' = EntryAfterToDict(entry)
    /\ UNCHANGED logs_data
    /\ UNCHANGED dvars
    /\ UNCHANGED lvars
    /\ UNCHANGED cvars
    /\ UNCHANGED kvars
    /\ UNCHANGED gvars

\* DatadogHandler.write([entry]), up to requests.post(intake_url, json=logs_data)
DatadogWrite ==
    /\ logs_data = None
    /\ logs_data' = log_data(entry)
    /\ entry' = EntryAfterSend(entry)
    /\ UNCHANGED encoded
    /\ UNCHANGED dvars
    /\ UNCHANGED lvars
    /\ UNCHANGED cvars
    /\ UNCHANGED kvars
    /\ UNCHANGED gvars

NextEncoding ==
    \/ ToDictCall
    \/ DatadogWrite

SpecEncoding == InitEncoding /\ [][NextEncoding]_vars

\* ------------------------------------------------ the global logger
AppNames == {"domolibrary", "my_app"}

\* variant of get_logger: a new instance is created at every call
get_logger_always_new(g, names, app_name) ==
    [global |-> Len(names) + 1, names |-> Append(names, app_name),
     result |-> Len(names) + 1]
\* get_logger(app_name), where _global_logger is g and the instances that
\* exist are names: the new _global_logger, the instances, the value returned
get_logger(g, names, app_name) ==
    IF g = 0
    THEN [global |-> Len(names) + 1, names |-> Append(names, app_name),
          result |-> Len(names) + 1]
    ELSE [global |-> g, names |-> names, result |-> g]

\* set_global_logger(logger): the new _global_logger
set_global_logger(g, logger) == logger

InitGlobal ==
    /\ InitDispatcher
    /\ batch_size = 1
    /\ pc[Timer] = "none"
    /\ NoLevels
    /\ NoCorrelation
    /\ NoConstruction
    /\ NoEncoding
    /\ NoGlobal

\* DCLogger(config, app_name), made by the application
NewLogger(app_name) ==
    /\ Len(logger_names) < MaxLoggers
    /\ logger_names' = Append(logger_names, app_name)
    /\ UNCHANGED <<global_logger, got, last_set>>
    /\ UNCHANGED dvars
    /\ UNCHANGED lvars
    /\ UNCHANGED cvars
    /\ UNCHANGED kvars
    /\ UNCHANGED evars

\* get_logger(app_name)
GetLoggerCall(app_name) ==
    /\ got.n < MaxGets
    /\ LET r == get_logger(global_logger, logger_names, app_name) IN
       /\ Len(r.names) <= MaxLoggers
       /\ global_logger' = r.global
       /\ logger_names' = r.names
       /\ got' = [n |-> got.n + 1, app_name |-> app_name, logger |-> r.result]
    /\ UNCHANGED last_set
    /\ UNCHANGED dvars
    /\ UNCHANGED lvars
    /\ UNCHANGED cvars
    /\ UNCHANGED kvars
    /\ UNCHANGED evars

\* set_global_logger(logger), logger being an instance that exists
SetGlobalLoggerCall(logger) ==
    /\ logger \in DOMAIN logger_names
    /\ global_logger' = set_global_logger(global_logger, logger)
    /\ last_set' = logger
    /\ UNCHANGED <<logger_names, got>>
    /\ UNCHANGED dvars
    /\ UNCHANGED lvars
    /\ UNCHANGED cvars
    /\ UNCHANGED kvars
    /\ UNCHANGED evars

NextGlobal ==
    \/ \E app_name \in AppNames : NewLogger(app_name)
    \/ \E app_name \in AppNames : GetLoggerCall(app_name)
    \/ \E logger \in 1..MaxLoggers : SetGlobalLoggerCall(logger)

SpecGlobal == InitGlobal /\ [][NextGlobal]_vars

\* ------------------------------------------------------------ properties
\* the records appended to the buffer so far
Appended == 1..(nextId - 1)
\* how many times record r occurs in the sequence of records seq
Occurrences(seq, r) == Cardinality({i \in DOMAIN seq : seq[i] = r})
\* how many times record r occurs in the batches taken so far
OccurrencesInBatches(r) ==
    Cardinality({<<j, i>> \in (DOMAIN batches) \X (1..MaxRecords + 1) :
                    i \in DOMAIN batches[j].recs /\ batches[j].recs[i] = r})
\* handler h's write has been invoked with a batch that holds record r
PassedTo(log, r) ==
    \E i \in DOMAIN log : log[i].kind = "write" /\ Occurrences(log[i].batch, r) > 0
\* handler h's write has been invoked with batch b
ReceivedBatch(log, b) ==
    \E i \in DOMAIN log : log[i] = WriteEvent(b)

\* C1: when close() returns, every record accepted (its log() call returned
\* True) before close() was called has been passed to every handler's write
C1_NoAcceptedRecordLost ==
    [][\A c \in Callers :
          (pc[c] = "hclose" /\ pc'[c] = "idle" /\ last'.ret = "void")
          => \A r \in frame[c].before, h \in Handlers : PassedTo(hlog'[h], r)]_vars

\* C2: every accepted record is in the buffer or in exactly one batch, never
\* in both and never twice; while a flush is writing, the buffer holds only
\* records enqueued after its swap, and none of the batch being written
C2_SwapAtomic ==
    /\ \A r \in Appended : Occurrences(buffer, r) + OccurrencesInBatches(r) = 1
    /\ \A p \in Procs : pc[p] = "write" =>
          /\ \E j \in DOMAIN batches : batches[j].recs = frame[p].batch
          /\ \A i \in DOMAIN buffer :
                /\ Occurrences(frame[p].batch, buffer[i]) = 0
                /\ buffer[i] > frame[p].batch[Len(frame[p].batch)]

\* a record was enqueued while a flush is writing: it is in the new buffer
C2_Witness ==
    \E p \in Procs : pc[p] = "write" /\ buffer # <<>>

\* C3: when a flush() call ends in which one handler's write failed (returned
\* False or raised) and no other write failed, it returns False and every
\* handler has received the batch
C3_PartialFailure ==
    [][\A c \in Callers, send \in SendOutcomes :
          ( /\ WriteReturn(c, send)
            /\ frame[c].op = "flush"
            /\ pc'[c] = "idle"
            /\ (send # "true") # (~frame[c].success) )
          => /\ last'.ret = "false"
             /\ \A h \in Handlers : ReceivedBatch(hlog'[h], frame[c].batch)]_vars

\* C4: no log(), flush() or close() call ends by raising a handler's write error
C4_WriteErrorsNotRaised ==
    last.ret # "LogWriteError"

\* C5: the periodic flush task never ends because of a handler failure
C5_TimerSurvivesFailure ==
    pc[Timer] # "failed"

\* C6: a close() call ends only after exactly one flush() and after close()
\* has been invoked on every handler
C6_CloseFlushesOnceClosesAll ==
    [][\A c \in Callers :
          ( /\ last'.op = "close"
            /\ pc'[c] = "idle"
            /\ \/ CloseCall(c)
               \/ pc[c] # "idle" /\ frame[c].op = "close" )
          => /\ pc[c] = "hclose"
             /\ frame[c].idx = NumHandlers
             /\ frame[c].flushes = 1]_vars

\* C7: an enqueue that makes the buffer reach batch_size takes, in the same
\* uninterrupted step, exactly one batch holding the whole buffer and leaves
\* the buffer empty; when the flush it triggered ends, the log call has made
\* one flush and the buffer holds only records enqueued after the swap, none
\* of them in the flushed batch
C7_FlushOnFull ==
    [][ /\ (nextId' # nextId /\ Len(buffer) + 1 >= batch_size)
           => /\ batches' = Append(batches, [recs |-> Append(buffer, nextId),
                                             origin |-> "log"])
              /\ buffer' = <<>>
        /\ \A c \in Callers :
             (pc[c] = "write" /\ frame[c].op = "log" /\ pc'[c] = "idle")
             => /\ frame[c].flushes = 1
                /\ Len(frame[c].batch) >= batch_size
                /\ \A i \in DOMAIN buffer' :
                      /\ Occurrences(frame[c].batch, buffer'[i]) = 0
                      /\ buffer'[i] > frame[c].batch[Len(frame[c].batch)]
                      /\ buffer'[i] < nextId' ]_vars

\* the flush triggered by an enqueue is writing and a record has been
\* enqueued meanwhile
C7_Witness ==
    \E c \in Callers : pc[c] = "write" /\ frame[c].op = "log" /\ buffer # <<>>

\* C8: every batch a handler's write was invoked with was taken by the timer,
\* by an explicit flush() or close(), or by an enqueue that made the buffer
\* reach batch_size
C8_NoWriteBelowBatchSize ==
    \A h \in Handlers : \A i \in DOMAIN hlog[h] :
        hlog[h][i].kind = "write" =>
            \E j \in DOMAIN batches :
                /\ batches[j].recs = hlog[h][i].batch
                /\ batches[j].origin \in {"log", "flush", "close", "timer"}
                /\ batches[j].origin = "log" => Len(batches[j].recs) >= batch_size

\* two enqueues have kept the buffer below batch_size and no write was invoked
C8_Witness ==
    /\ Len(buffer) = 2
    /\ Len(buffer) < batch_size
    /\ \A h \in Handlers : hlog[h] = <<>>

\* C9: an enqueue below the configured minimum level changes nothing: not the
\* buffer, the handlers, the flush task or any running call
C9_FilteredEnqueueNoOp ==
    [][\A c \in Callers, lvl \in {l \in Levels : LevelIndex(l) < LevelIndex(level)} :
          LogCall(c, lvl)
          => UNCHANGED <<buffer, nextId, pc, frame, must_cancel, hlog, batches>>]_vars

\* a filtered enqueue has returned while the buffer holds a record and the
\* flush task is running
C9_Witness ==
    /\ last.op = "log"
    /\ ~last.appended
    /\ buffer # <<>>
    /\ pc[Timer] = "sleep"

\* C10: an enqueue below the minimum level returns False, and True is returned
\* only when the record was appended
C10_FilteredReturnsFalse ==
    last.op = "log" =>
        /\ ~last.appended => last.ret = "false"
        /\ last.ret = "true" => last.appended

\* C11: for every pair of levels (min, L), min.should_log(L) is true exactly
\* when L is at least as severe as min in the order DEBUG < INFO < WARNING <
\* ERROR < CRITICAL.
Severity(l) ==
    CASE l = "DEBUG"    -> 0
      [] l = "INFO"     -> 1
      [] l = "WARNING"  -> 2
      [] l = "ERROR"    -> 3
      [] l = "CRITICAL" -> 4
C11_ShouldLogIsSeverityOrder ==
    lv_out # "none" =>
        (lv_out = "true" <=> Severity(lv_other) >= Severity(lv_self))
\* the boundary case: a message at exactly the configured level
C11_Witness ==
    /\ lv_out = "true"
    /\ lv_self = "ERROR"
    /\ lv_other = "ERROR"

\* C12: when a flush() call on a non-empty buffer ends, it has returned True
\* exactly when every handler's write was invoked with the batch and returned
\* True; when it returns and a write of the batch had returned False, it
\* returns False
C12_FlushResultAggregates ==
    [][\A c \in Callers, send \in SendOutcomes :
          ( /\ WriteReturn(c, send)
            /\ frame[c].op = "flush"
            /\ pc'[c] = "idle" )
          => LET reportedFailure == frame[c].failed \/ send = "false"
                 allSucceeded ==
                     /\ ~reportedFailure
                     /\ send = "true"
                     /\ \A h \in Handlers : ReceivedBatch(hlog'[h], frame[c].batch)
             IN  /\ last'.op = "flush"
                 /\ last'.ret = "true" <=> allSucceeded
                 /\ (reportedFailure /\ last'.ret \in {"true", "false"})
                        => last'.ret = "false"]_vars
\* a flush() call has returned False, every handler having received a batch
\* that a flush() call took
C12_Witness ==
    /\ last = Finished("flush", "false", FALSE)
    /\ \E j \in DOMAIN batches :
          /\ batches[j].origin = "flush"
          /\ \A h \in Handlers : ReceivedBatch(hlog[h], batches[j].recs)

\* C13: a flush() call that finds the buffer empty returns True at once: no
\* handler's write is invoked, no batch is taken, and the buffer and the
\* periodic flush task are as they were
C13_EmptyFlushNoOp ==
    [][\A c \in Callers :
          (FlushCall(c) /\ buffer = <<>>)
          => /\ last' = Finished("flush", "true", FALSE)
             /\ pc'[c] = "idle"
             /\ hlog' = hlog
             /\ batches' = batches
             /\ buffer' = <<>>
             /\ pc'[Timer] = pc[Timer]
             /\ frame'[Timer] = frame[Timer]
             /\ must_cancel' = must_cancel]_vars
\* a flush() call has returned and no handler has ever been written to
C13_Witness ==
    /\ last = Finished("flush", "true", FALSE)
    /\ batches = <<>>
    /\ \A h \in Handlers : hlog[h] = <<>>

\* C14: close() cancels the periodic flush task before its final flush, it
\* invokes no handler's close() before every write of the final flush has
\* completed, and once a close() call has returned the periodic flush task
\* never calls flush() again
C14_CloseOrder ==
    [][/\ \A c \in Callers :
            \* the final flush starts: the task is not running
            ( /\ frame'[c].op = "close"
              /\ frame'[c].flushes = 1
              /\ frame[c].flushes = 0 )
            => pc'[Timer] \in {"none", "cancelled"}
       /\ \A c \in Callers :
            \* the first handler's close() is invoked
            (pc[c] # "hclose" /\ pc'[c] = "hclose")
            => /\ frame'[c].flushes = 1
               /\ \A q \in Procs : q # c => frame'[q] = frame[q]
               /\ frame[c].batch # <<>> =>
                     \A h \in Handlers : ReceivedBatch(hlog[h], frame[c].batch)
       /\ closed => ~TimerFire]_vars

\* C15: once a close() call has returned, a log() call at a level that passes
\* the filter appends no record to the buffer and does not return True
C15_NoEnqueueAfterClose ==
    [][\A c \in Callers, lvl \in Levels :
          (closed /\ should_log(level, lvl) /\ LogCall(c, lvl))
          => /\ nextId' = nextId
             /\ buffer' = buffer
             /\ batches' = batches
             /\ pc'[c] = "idle"
             /\ last'.op = "log"
             /\ last'.ret # "true"]_vars

\* C16: in every reachable state the buffer holds at most max_buffer_size
\* records, whatever batch_size and max_buffer_size are configured
C16_BufferBounded ==
    Len(buffer) <= max_buffer_size

\* C17: the records passed to a handler's write come in the order in which
\* they were appended (record ids grow in that order): in increasing order
\* within each batch, and every record of an earlier write before every
\* record of a later write
C17_EnqueueOrderPerHandler ==
    \A h \in Handlers :
        \A i \in DOMAIN hlog[h], j \in DOMAIN hlog[h] :
            (i <= j /\ hlog[h][i].kind = "write" /\ hlog[h][j].kind = "write")
            => \A m \in DOMAIN hlog[h][i].batch, n \in DOMAIN hlog[h][j].batch :
                  (i < j \/ m < n) => hlog[h][i].batch[m] < hlog[h][j].batch[n]

\* C18: when a flush() call that took a batch returns (to a caller, to log(),
\* to close() or to the periodic task), every handler's write has been
\* invoked with the batch and has answered: the answer that ends the call is
\* the last handler's, and no flow is left suspended in a write of the batch
C18_FlushIsBarrier ==
    [][\A p \in Procs :
          ( /\ pc[p] = "write"
            /\ \/ pc'[p] = "idle" /\ last'.ret # "LogWriteError"
               \/ pc'[p] \in {"hclose", "sleep"} )
          => /\ frame[p].idx = NumHandlers
             /\ \A h \in Handlers : ReceivedBatch(hlog[h], frame[p].batch)
             /\ \A q \in Procs :
                    pc'[q] = "write" => frame'[q].batch # frame[p].batch]_vars
\* a flush() call has returned True and its batch has reached every handler
C18_Witness ==
    /\ last = Finished("flush", "true", FALSE)
    /\ \E j \in DOMAIN batches :
          /\ batches[j].origin = "flush"
          /\ \A h \in Handlers : ReceivedBatch(hlog[h], batches[j].recs)

\* C19: no record is passed to the same handler's write more than once, and
\* a record that a flush has taken is never in the buffer again, whatever
\* the handlers' writes answered
C19_AtMostOncePerBatch ==
    /\ \A h \in Handlers, r \in Appended :
          Cardinality({i \in DOMAIN hlog[h] :
                          /\ hlog[h][i].kind = "write"
                          /\ Occurrences(hlog[h][i].batch, r) > 0}) <= 1
    /\ \A j \in DOMAIN batches, m \in 1..MaxRecords + 1 :
          m \in DOMAIN batches[j].recs
          => Occurrences(buffer, batches[j].recs[m]) = 0
\* the one batch taken by a caller's flush() had a write that returned False
\* (the call returned False), and a later batch, taken by the periodic task,
\* has been passed to every handler
C19_Witness ==
    /\ last = Finished("flush", "false", FALSE)
    /\ Len(batches) = 2
    /\ batches[1].origin = "flush"
    /\ batches[2].origin = "timer"
    /\ \A h \in Handlers : ReceivedBatch(hlog[h], batches[2].recs)

C21_OneFlushTask ==
    flush_tasks <= 1
\* a log() call made after close() had returned and had cancelled the task
\* has appended a record
C21_Witness ==
    /\ closed
    /\ pc[Timer] = "cancelled"
    /\ flush_tasks = 1
    /\ last = Finished("log", "true", TRUE)

C23_EndRequestClears ==
    [][nextId' # nextId => entry_corr'[nextId].trace_id \notin ended]_vars

MissingSetting(c) ==
    CASE c.kind = "console" -> FALSE
      [] c.kind = "datadog" -> ~c.api_key
      [] c.kind = "aws" -> ~c.aws_region \/ ~c.log_group
      [] c.kind = "gcp" -> ~c.project_id
      [] c.kind = "azure" -> ~c.workspace_id \/ ~c.shared_key
      [] c.kind = "multi" -> FALSE
C25_InvalidConfigRaisesEarly ==
    ( /\ constructed.outcome # "none"
      /\ \/ MissingSetting(config)
         \/ /\ config.kind = "multi"
            /\ \E i \in DOMAIN config.handlers : MissingSetting(config.handlers[i]) )
    => /\ constructed.outcome = "LogConfigError"
       /\ constructed.handlers = <<>>
       /\ constructed.flush_task = "none"
\* a Datadog configuration with no API key was given to DCLogger while an
\* event loop was running
C25_Witness ==
    /\ constructed.outcome # "none"
    /\ config = [kind |-> "datadog", api_key |-> FALSE]
    /\ loop_running

\* C26: with batch_size 2, no flush made by the periodic task and none asked
\* for by a caller: once the log() calls of the first two records have
\* returned, every handler's write was called exactly once, with both records,
\* and the buffer is empty; once the log() call of a third record has returned,
\* the buffer holds that record alone and no write was added; a close() that
\* then returns has written the third record once more to every handler and
\* after that called the handler's close once
OnlyThresholdFlushes ==
    \A i \in DOMAIN batches : batches[i].origin \in {"log", "close"}
NoCallRunning == \A c \in Callers : pc[c] = "idle"
C26_BatchOfTwoScenario ==
    (batch_size = 2 /\ OnlyThresholdFlushes /\ NoCallRunning) =>
        /\ (nextId = 3 /\ accepted = {1, 2} /\ closeCalls = 0) =>
               /\ buffer = <<>>
               /\ \A h \in Handlers : hlog[h] = <<WriteEvent(<<1, 2>>)>>
        /\ (nextId = 4 /\ accepted = {1, 2, 3} /\ closeCalls = 0) =>
               /\ buffer = <<3>>
               /\ \A h \in Handlers : hlog[h] = <<WriteEvent(<<1, 2>>)>>
        /\ (nextId = 4 /\ accepted = {1, 2, 3} /\ closeCalls = 1 /\ closed
               /\ Len(batches) = 2 /\ batches[2].origin = "close") =>
               /\ buffer = <<>>
               /\ \A h \in Handlers :
                     hlog[h] = <<WriteEvent(<<1, 2>>), WriteEvent(<<3>>), CloseEvent>>
\* the whole scenario was played: two records flushed by log(), the third by
\* a close() that has returned
C26_Witness ==
    /\ batch_size = 2
    /\ closed
    /\ NoCallRunning
    /\ batches = <<[recs |-> <<1, 2>>, origin |-> "log"],
                   [recs |-> <<3>>, origin |-> "close"]>>

\* the header names a view (the result of to_dict, or a posted log_data) shows
\* under http_details
HeaderNamesIn(view) ==
    IF "http_details" \in DOMAIN view.v /\ "headers" \in DOMAIN view.v.http_details.v
    THEN DOMAIN view.v.http_details.v.headers.v
    ELSE {}
IsAuthorization(k) ==
    Upper(k) = <<"A", "U", "T", "H", "O", "R", "I", "Z", "A", "T", "I", "O", "N">>
\* C27: whatever the header map of the entry's HTTP details and however the
\* name is spelled, neither the dict to_dict() returns nor the log_data the
\* Datadog handler posts holds an Authorization header
C27_NoAuthorizationHeader ==
    /\ \A i \in DOMAIN encoded :
          \A k \in HeaderNamesIn(encoded[i]) : ~IsAuthorization(k)
    /\ logs_data # None =>
          \A k \in HeaderNamesIn(logs_data) : ~IsAuthorization(k)
\* an entry whose header map holds "Authorization" next to a harmless header
\* was encoded and posted, and the harmless header is in the encoding
C27_Witness ==
    /\ encoded # <<>>
    /\ logs_data # None
    /\ entry.v.http_details # None
    /\ entry.v.http_details.v.headers.t = "dict"
    /\ <<"A", "u", "t", "h", "o", "r", "i", "z", "a", "t", "i", "o", "n">>
          \in DOMAIN entry.v.http_details.v.headers.v
    /\ HeaderNamesIn(encoded[1]) = {<<"a", "c", "c", "e", "p", "t">>}

\* a value that is None or empty
Absent(x) ==
    \/ x = None
    \/ x.t = "str" /\ x.v = ""
    \/ x.t = "text" /\ x.v = <<>>
    \/ x.t = "dict" /\ DOMAIN x.v = {}
OptionalFields ==
    {"user", "action", "entity", "duration_ms", "correlation", "multi_tenant",
     "http_details", "extra"}
NestedObjects == {"correlation", "multi_tenant", "http_details"}
\* C28: the dict to_dict() returns holds an optional field exactly when the
\* field was neither None nor empty at construction, the same for the fields
\* of the nested HTTP details, correlation and multi-tenant objects, and a
\* second to_dict() returns the same dict as the first
C28_SparseAndIdempotent ==
    \A i \in DOMAIN encoded :
        LET d == encoded[i].v IN
        /\ \A f \in OptionalFields : (f \in DOMAIN d) <=> ~Absent(entry.v[f])
        /\ \A f \in NestedObjects :
              (f \in DOMAIN d /\ entry.v[f] # None) =>
                 \A g \in DOMAIN entry.v[f].v :
                    (g \in DOMAIN d[f].v) <=> ~Absent(entry.v[f].v[g])
        /\ encoded[i] = encoded[1]

C30_TimerDeliversAll ==
    \A r \in 1..MaxRecords :
        (r \in accepted) ~> (\A h \in Handlers : PassedTo(hlog[h], r))

\* C31: a get_logger call made while a global logger exists returns that
\* instance, creates none and leaves every instance as it was, whatever
\* app_name it is given; a call made while none exists creates one instance
\* and returns it; and from a set_global_logger(x) on, get_logger returns x
C31_GlobalLoggerIsSingleton ==
    [][got'.n # got.n =>
          /\ IF global_logger # 0
             THEN /\ got'.logger = global_logger
                  /\ global_logger' = global_logger
                  /\ logger_names' = logger_names
             ELSE /\ logger_names' = Append(logger_names, got'.app_name)
                  /\ got'.logger = Len(logger_names')
                  /\ global_logger' = got'.logger
          /\ last_set # 0 => got'.logger = last_set]_vars
\* get_logger was called, after a set_global_logger, with another app_name
\* than the one of the instance it returned
C31_Witness ==
    /\ got.n > 0
    /\ last_set # 0
    /\ got.logger = last_set
    /\ logger_names[got.logger] # got.app_name

\* the string spells the name of level l, in whatever case
Names(str, l) == Lower(str) = Lower(LevelValue(l))
\* C32: from_string returns the level whose name the string spells, whatever
\* the case of its letters, and returns INFO for a string that spells the name
\* of no level; it returns a level for every string
C32_FromStringCaseInsensitiveTotal ==
    lv_self # "none" =>
        /\ lv_self \in Levels
        /\ \A l \in Levels : Names(lv_str, l) => lv_self = l
        /\ (\A l \in Levels : ~Names(lv_str, l)) => lv_self = "INFO"
\* a name in mixed case was given and its level returned
C32_Witness ==
    /\ lv_str = <<"w", "A", "r", "N", "i", "N", "g">>
    /\ lv_self = "WARNING"

\* C33: the first handler's write is invoked, in the step that empties the
\* buffer, with exactly the records the buffer held, in their order; every
\* later handler's write of that flush is invoked with the same batch,
\* whatever was appended to the buffer in between; and the return of a
\* handler's write leaves the buffer as it was
C33_SameSnapshotForAllHandlers ==
    [][/\ \A h \in Handlers :
             (Len(hlog'[h]) > Len(hlog[h]) /\ hlog'[h][Len(hlog'[h])].kind = "write") =>
                LET ev == hlog'[h][Len(hlog'[h])] IN
                IF h = 1
                THEN /\ Len(batches') = Len(batches) + 1
                     /\ batches'[Len(batches')].recs = ev.batch
                     /\ ev.batch = (IF nextId' # nextId THEN Append(buffer, nextId)
                                                         ELSE buffer)
                     /\ buffer' = <<>>
                ELSE \E p \in Procs :
                        /\ pc[p] = "write"
                        /\ frame[p].idx = h - 1
                        /\ frame'[p].idx = h
                        /\ ev.batch = frame[p].batch
                        /\ ReceivedBatch(hlog[h - 1], ev.batch)
                        /\ \E j \in DOMAIN batches : batches[j].recs = ev.batch
       /\ (\E p \in Procs : pc[p] = "write" /\ frame'[p] # frame[p]) =>
             buffer' = buffer]_vars
\* the second handler's write was invoked with the batch of a flush while the
\* buffer already held a record appended after the swap
C33_Witness ==
    \E p \in Procs :
        /\ pc[p] = "write"
        /\ frame[p].idx = 2
        /\ buffer # <<>>
        /\ ReceivedBatch(hlog[2], frame[p].batch)
        /\ \A i \in DOMAIN buffer : \A j \in DOMAIN frame[p].batch :
              buffer[i] > frame[p].batch[j]

\* C34: no handler's write is invoked after close() has invoked that
\* handler's close
C34_NoWriteAfterHandlerClose ==
    \A h \in Handlers : \A i, j \in DOMAIN hlog[h] :
        (hlog[h][i].kind = "close" /\ i < j) => hlog[h][j].kind # "write"

\* C35: wherever the calls are suspended or have returned, the buffer holds
\* fewer records than batch_size
C35_BufferBelowBatchSize == Len(buffer) < batch_size
\* a flush is suspended in a handler's write and the buffer has been filled
\* again up to one record below batch_size
C35_Witness ==
    /\ batch_size >= 2
    /\ Len(buffer) = batch_size - 1
    /\ \E p \in Procs : pc[p] = "write" /\ frame[p].op = "log"

\* C36: in the dict to_dict() returns, a request or response body that is a
\* string of more than 500 characters appears as its first 500 characters
\* followed by "...", and a non-empty one of at most 500 characters appears
\* as it is; no body in the dict is longer than 503 characters
C36_BodiesTruncated ==
    \A i \in DOMAIN encoded :
        entry.v.http_details # None =>
            \A f \in {"request_body", "response_body"} :
                LET body == entry.v.http_details.v[f] IN
                (body.t = "text" /\ body.v # <<>>) =>
                    /\ f \in DOMAIN encoded[i].v.http_details.v
                    /\ LET out == encoded[i].v.http_details.v[f] IN
                       /\ out.t = "text"
                       /\ Len(out.v) <= 503
                       /\ IF Len(body.v) > 500
                          THEN /\ Len(out.v) = 503
                               /\ \A k \in 1..500 : out.v[k] = body.v[k]
                               /\ \A k \in 501..503 : out.v[k] = "."
                          ELSE out = body
\* an entry with a request body one character over the limit and a response
\* body exactly at the limit was encoded
C36_Witness ==
    /\ encoded # <<>>
    /\ entry.v.http_details # None
    /\ entry.v.http_details.v.request_body.t = "text"
    /\ entry.v.http_details.v.response_body.t = "text"
    /\ Len(entry.v.http_details.v.request_body.v) = 501
    /\ Len(entry.v.http_details.v.response_body.v) = 500
    /\ Len(encoded[1].v.http_details.v.request_body.v) = 503

\* C37: with an empty handler list, a flush() call that finds records in the
\* buffer empties it and returns True at once, and no handler's write is
\* ever invoked: the records are in no batch given to a handler
C37_NoHandlersFlushDiscards ==
    [][\A c \in Callers :
          (FlushCall(c) /\ buffer # <<>>) =>
             /\ buffer' = <<>>
             /\ last' = Finished("flush", "true", FALSE)
             /\ pc'[c] = "idle"
             /\ batches'[Len(batches')].recs = buffer
             /\ \A h \in Handlers : hlog'[h] = <<>>]_vars
\* a flush() call has taken records out of the buffer and returned True
C37_Witness ==
    /\ num_handlers = 0
    /\ last = Finished("flush", "true", FALSE)
    /\ buffer = <<>>
    /\ batches # <<>>
    /\ batches[Len(batches)].origin = "flush"
    /\ \A h \in Handlers : hlog[h] = <<>>

\* C38: a close() called right after a close() that returned, with nothing
\* enqueued in between, takes no batch, invokes no handler write, creates no
\* flush task and goes straight to the handlers' close(); it raises nothing
\* of its own (it ends by returning, or by a handler's close() raising), and
\* when it returns every handler has had close() invoked once more, directly
\* after the close() of the first call
CloseReturned == last = Finished("close", "void", FALSE)
C38_SecondCloseOnlyClosesHandlers ==
    [][/\ (CloseReturned /\ CloseCallWithin("c1", MaxCloses + 1))
          => /\ pc'["c1"] = "hclose"
             /\ pc'[Timer] = pc[Timer]
             /\ ~must_cancel'
             /\ batches' = batches
             /\ buffer' = buffer
             /\ flush_tasks' = flush_tasks
             /\ last' = last
             /\ hlog' = [hlog EXCEPT ![1] = Append(@, CloseEvent)]
       /\ (CloseReturned /\ pc["c1"] = "hclose")
          => /\ batches' = batches
             /\ buffer' = buffer
             /\ flush_tasks' = flush_tasks
             /\ pc'[Timer] = pc[Timer]
             /\ \A h \in Handlers :
                   hlog'[h] \in {hlog[h], Append(hlog[h], CloseEvent)}
             /\ pc'["c1"] = "idle"
                => /\ last'.op = "close"
                   /\ last'.ret \in {"void", "HandlerCloseError"}
                   /\ last'.ret = "void"
                      => \A h \in Handlers :
                            /\ Len(hlog[h]) >= 2
                            /\ hlog[h][Len(hlog[h])] = CloseEvent
                            /\ hlog[h][Len(hlog[h]) - 1] = CloseEvent]_vars
C38_Witness ==
    /\ closeCalls = MaxCloses + 1
    /\ CloseReturned
    /\ pc["c1"] = "idle"
    /\ accepted # {}
    /\ batches # <<>>
    /\ \A h \in Handlers :
          /\ Len(hlog[h]) >= 3
          /\ hlog[h][Len(hlog[h])] = CloseEvent
          /\ hlog[h][Len(hlog[h]) - 1] = CloseEvent
====
